---- MODULE Spec2Model ----
(***************************************************************************)
(* A model of the resource-tree differ of src/algo.py: ResourceNode,       *)
(* assign_keys, create_state_snapshot and generate_forwarding_rules, and   *)
(* of the callers' mutations of the tree (add_child, children.pop,         *)
(* assignment to name) as src/algo.py:main and src/test_algo.py do them;    *)
(* and of the documentation migration tool of src/linking.py: prepare_docs *)
(* and the on_config hook over a docs directory of markdown files, the     *)
(* internal_link macro the hook installs and the dry run, preview_docs.    *)
(***************************************************************************)
EXTENDS Integers, Sequences, FiniteSets, TLC

\* ---------------------------------------------------------------- bounds
MaxNodes     == 3   \* ResourceNode objects ever constructed
MaxMutations == 2   \* tree mutations between the before and the after snapshot
MaxEntries   == 2   \* entries of a snapshot handed to the differ on its own

\* ------------------------------------------------------- program constants
METADATA_KEY == "stable_id"

\* Python's None, as a value of an attribute and as the result of dict.get.
None == "<None>"

\* ------------------------------------------------------------ input domains
Names  == {"a", "b"}
\* Values a caller can pass for METADATA_KEY in the attributes argument:
\* the empty string and an identifier chosen by the caller (passing it for
\* two nodes gives them the same identifier).
ExtIds == {"", "x"}

VARIABLES
    name,        \* name[n]: ResourceNode.name of node n
    attributes,  \* attributes[n]: ResourceNode.attributes of node n (a mapping)
    children,    \* children[n]: ResourceNode.children of node n (a list of nodes)
    uuids,       \* how many identifiers uuid.uuid4() has produced so far
    before,      \* <<>> or <<s>>: the caller's before_state
    after,       \* <<>> or <<s>>: the caller's after_state
    rules,       \* <<>> or <<r>>: the caller's forwarding rules
    log,         \* the mutations of the tree since before_state was taken
    docs,        \* docs[p]: the content of markdown file p of DOCS_DIR
    redirect_map_file,  \* <<>> or <<t>>: the content of REDIRECT_MAP_FILE
    config,      \* <<>> or <<c>>: the MkDocs config of the build under way
    link,        \* <<>> or <<r>>: the last internal_link call of that build
    stdout,      \* <<>> or <<t>>: what the last dry run printed
    records,     \* records handed to the encoding on its own, as constructed
    hashable_keys  \* <<>> or the keys computed from those records

vars == <<name, attributes, children, uuids, before, after, rules, log,
          docs, redirect_map_file, config, link, stdout,
          records, hashable_keys>>

\* The state of the resource tree and its caller, and the state of the docs
\* directory and its build.
treeVars == <<name, attributes, children, uuids, before, after, rules, log>>
docsVars == <<docs, redirect_map_file, config, link, stdout>>
keyVars  == <<records, hashable_keys>>

\* The nodes constructed so far; the first one is the tree's root.
Nodes == DOMAIN name
root  == 1

\* ------------------------------------------------------------ Python dicts
\* A dict whose iteration order matters is a sequence of <<key, value>>
\* entries with pairwise distinct keys, in insertion order.
EmptyDict == <<>>

Keys(d) == {d[i][1] : i \in DOMAIN d}

Has(d, k) == \E i \in DOMAIN d : d[i][1] = k

\* d[k], for a key the dict has.
Get(d, k) == d[CHOOSE i \in DOMAIN d : d[i][1] = k][2]

\* d[k] = v: an existing key keeps its place, a new key goes last.
Put(d, k, v) ==
    IF Has(d, k)
    THEN [i \in DOMAIN d |-> IF d[i][1] = k THEN <<k, v>> ELSE d[i]]
    ELSE Append(d, <<k, v>>)

\* d.update(e)
RECURSIVE Update(_, _)
Update(d, e) ==
    IF e = <<>> THEN d
    ELSE Update(Put(d, Head(e)[1], Head(e)[2]), Tail(e))

\* ----------------------------------------------------------- ResourceNode
\* `not v` for an attribute value: None and the empty string are falsy.
Falsy(v) == v = None \/ v = ""

\* attributes.setdefault(k, v) on a mapping
SetDefault(d, k, v) == IF k \in DOMAIN d THEN d ELSE d @@ (k :> v)

\* attributes[k] = v on a mapping
SetItem(d, k, v) == (k :> v) @@ d

\* ResourceNode.stable_id
stable_id_of(attrs, n) ==
    IF METADATA_KEY \in DOMAIN attrs[n] THEN attrs[n][METADATA_KEY] ELSE None

stable_id(n) == stable_id_of(attributes, n)

\* Mutant: the generator returns the same identifier at every call.
uuid4_constant(i) == "u1"

\* uuid.uuid4(): the i-th identifier generated; never one generated before
\* and never one a caller wrote.
uuid4(i) == "u" \o ToString(i)

\* The attributes argument of the constructor: <<>> when omitted (None),
\* <<d>> when the mapping d is passed.
AttributeArgs == {<<>>} \cup {<<(METADATA_KEY :> v)>> : v \in ExtIds}

Range(s) == {s[i] : i \in DOMAIN s}

HasParent(c) == \E p \in Nodes : c \in Range(children[p])
ParentOf(c)  == CHOOSE p \in Nodes : c \in Range(children[p])

RECURSIVE Subtree(_)
Subtree(n) == {n} \cup UNION {Subtree(children[n][i]) : i \in DOMAIN children[n]}

\* --------------------------------------------------------------- assign_keys
RECURSIVE assign_keys(_, _)
RECURSIVE assign_keys_children(_, _, _)

\* Mutant: a fresh identifier is written whether or not the node has one.
assign_keys_overwrite(st, node) ==
    assign_keys_children(
        [attrs |-> [st.attrs EXCEPT ![node] =
                       SetItem(@, METADATA_KEY, uuid4(st.uuids + 1))],
         uuids |-> st.uuids + 1],
        children[node], 1)

\* st = [attrs, uuids]: the attributes of all nodes and the uuid4 count.
assign_keys(st, node) ==
    LET st1 == IF Falsy(stable_id_of(st.attrs, node))
               THEN [attrs |-> [st.attrs EXCEPT ![node] =
                                   SetItem(@, METADATA_KEY, uuid4(st.uuids + 1))],
                     uuids |-> st.uuids + 1]
               ELSE st
    IN assign_keys_children(st1, children[node], 1)

assign_keys_children(st, kids, i) ==
    IF i > Len(kids) THEN st
    ELSE assign_keys_children(assign_keys(st, kids[i]), kids, i + 1)

\* ------------------------------------------------------ create_state_snapshot
RECURSIVE create_state_snapshot(_, _)
RECURSIVE snapshot_children(_, _, _, _)

\* Mutant: the children are not visited.
create_state_snapshot_no_children(node, path_to_root) ==
    IF Falsy(stable_id(node)) THEN EmptyDict
    ELSE Put(EmptyDict, stable_id(node),
             [path_to_root |-> path_to_root, name |-> name[node]])

\* Mutant: the children get the path of their parent, the parent's own
\* identifier not appended.
create_state_snapshot_same_path(node, path_to_root) ==
    IF Falsy(stable_id(node)) THEN EmptyDict
    ELSE LET state_map == Put(EmptyDict, stable_id(node),
                              [path_to_root |-> path_to_root, name |-> name[node]])
         IN snapshot_children(state_map, children[node], path_to_root, 1)

\* Mutant: the path is made of the ancestors' names, not their identifiers.
create_state_snapshot_path_of_names(node, path_to_root) ==
    IF Falsy(stable_id(node)) THEN EmptyDict
    ELSE LET state_map == Put(EmptyDict, stable_id(node),
                              [path_to_root |-> path_to_root, name |-> name[node]])
             new_path_for_children == path_to_root \o <<name[node]>>
         IN snapshot_children(state_map, children[node], new_path_for_children, 1)

\* Mutant: a node without an identifier is left out but its children are
\* still visited.
create_state_snapshot_skip_node_only(node, path_to_root) ==
    IF Falsy(stable_id(node))
    THEN snapshot_children(EmptyDict, children[node], path_to_root, 1)
    ELSE LET state_map == Put(EmptyDict, stable_id(node),
                              [path_to_root |-> path_to_root, name |-> name[node]])
             new_path_for_children == path_to_root \o <<stable_id(node)>>
         IN snapshot_children(state_map, children[node], new_path_for_children, 1)

\* Mutant: the node's identifier is appended to the list passed in, not to
\* a copy of it, so the node's own record, which holds that list, shows it.
create_state_snapshot_appends_in_place(node, path_to_root) ==
    IF Falsy(stable_id(node)) THEN EmptyDict
    ELSE LET new_path_for_children == path_to_root \o <<stable_id(node)>>
             state_map == Put(EmptyDict, stable_id(node),
                              [path_to_root |-> new_path_for_children,
                               name |-> name[node]])
         IN snapshot_children(state_map, children[node], new_path_for_children, 1)

\* Mutant: a child's entries do not replace those the map already holds.
snapshot_children_first_wins(state_map, kids, path, i) ==
    IF i > Len(kids) THEN state_map
    ELSE snapshot_children(Update(create_state_snapshot(kids[i], path), state_map),
                           kids, path, i + 1)

\* Mutant: the children's path holds their parent's identifier alone.
create_state_snapshot_parent_only(node, path_to_root) ==
    IF Falsy(stable_id(node)) THEN EmptyDict
    ELSE LET state_map == Put(EmptyDict, stable_id(node),
                              [path_to_root |-> path_to_root, name |-> name[node]])
             new_path_for_children == <<stable_id(node)>>
         IN snapshot_children(state_map, children[node], new_path_for_children, 1)

create_state_snapshot(node, path_to_root) ==
    IF Falsy(stable_id(node)) THEN EmptyDict
    ELSE LET state_map == Put(EmptyDict, stable_id(node),
                              [path_to_root |-> path_to_root, name |-> name[node]])
             new_path_for_children == path_to_root \o <<stable_id(node)>>
         IN snapshot_children(state_map, children[node], new_path_for_children, 1)

snapshot_children(state_map, kids, path, i) ==
    IF i > Len(kids) THEN state_map
    ELSE snapshot_children(Update(state_map, create_state_snapshot(kids[i], path)),
                           kids, path, i + 1)

\* -------------------------------------------------- generate_forwarding_rules
\* The fields of a record, sorted: "name" sorts before "path_to_root".
FieldRank(k) == IF k = "name" THEN 1 ELSE 2

\* Mutant: only the path is encoded.
hashable_key_path_only(attrs) == << <<"path_to_root", attrs.path_to_root>> >>

\* tuple(sorted((k, tuple(v) if isinstance(v, list) else v) for k, v in attrs.items())):
\* the (field, value) pairs in the order of the field names; a list and the
\* tuple made of it are the same sequence here.
hashable_key(attrs) ==
    LET ks == DOMAIN attrs
        nth(i) == CHOOSE k \in ks : Cardinality({j \in ks : FieldRank(j) < FieldRank(k)}) = i - 1
    IN [i \in 1..Cardinality(ks) |-> <<nth(i), attrs[nth(i)]>>]

\* Mutant: every identifier of both snapshots is taken as changed.
changed_always(before_attrs, after_attrs) == TRUE

\* Mutant: only the paths are compared.
changed_path_only(before_attrs, after_attrs) ==
    before_attrs.path_to_root # after_attrs.path_to_root

\* before_attrs != after_attrs
changed(before_attrs, after_attrs) == before_attrs # after_attrs

RECURSIVE forwarding_loop(_, _, _, _)

\* Mutant: an identifier missing from after_state is not skipped; its
\* after_attrs is None, which differs from before_attrs.
forwarding_loop_reports_deleted(forwarding_map, before_state, after_state, i) ==
    IF i > Len(before_state) THEN forwarding_map
    ELSE LET key == before_state[i][1]
             before_attrs == before_state[i][2]
         IN IF ~Has(after_state, key) \/ changed(before_attrs, Get(after_state, key))
            THEN forwarding_loop(
                     Put(forwarding_map, hashable_key(before_attrs),
                         [new_location_key |-> key]),
                     before_state, after_state, i + 1)
            ELSE forwarding_loop(forwarding_map, before_state, after_state, i + 1)

\* Mutant: an identifier whose path and name both changed gets a rule for
\* the move and another one for the rename.
forwarding_loop_rule_per_change(forwarding_map, before_state, after_state, i) ==
    IF i > Len(before_state) THEN forwarding_map
    ELSE LET key == before_state[i][1]
             before_attrs == before_state[i][2]
         IN IF ~Has(after_state, key)
            THEN forwarding_loop(forwarding_map, before_state, after_state, i + 1)
            ELSE IF changed(before_attrs, Get(after_state, key))
                 THEN LET after_attrs == Get(after_state, key)
                          moved == Put(forwarding_map, hashable_key(before_attrs),
                                       [new_location_key |-> key])
                          halfway == [path_to_root |-> after_attrs.path_to_root,
                                      name |-> before_attrs.name]
                      IN forwarding_loop(
                             IF /\ before_attrs.path_to_root # after_attrs.path_to_root
                                /\ before_attrs.name # after_attrs.name
                             THEN Put(moved, hashable_key(halfway),
                                      [new_location_key |-> key])
                             ELSE moved,
                             before_state, after_state, i + 1)
                 ELSE forwarding_loop(forwarding_map, before_state, after_state, i + 1)

\* The loop of generate_forwarding_rules from the i-th entry of before_state
\* on. after_state.get(key) is None exactly when after_state lacks the key:
\* no snapshot holds None as a record.
forwarding_loop(forwarding_map, before_state, after_state, i) ==
    IF i > Len(before_state) THEN forwarding_map
    ELSE LET key == before_state[i][1]
             before_attrs == before_state[i][2]
         IN IF ~Has(after_state, key)
            THEN forwarding_loop(forwarding_map, before_state, after_state, i + 1)
            ELSE IF changed(before_attrs, Get(after_state, key))
                 THEN forwarding_loop(
                          Put(forwarding_map, hashable_key(before_attrs),
                              [new_location_key |-> key]),
                          before_state, after_state, i + 1)
                 ELSE forwarding_loop(forwarding_map, before_state, after_state, i + 1)

generate_forwarding_rules(before_state, after_state) ==
    forwarding_loop(EmptyDict, before_state, after_state, 1)

\* ------------------------------------------------------------------ actions
Init ==
    /\ name = <<>>
    /\ attributes = <<>>
    /\ children = <<>>
    /\ uuids = 0
    /\ before = <<>>
    /\ after = <<>>
    /\ rules = <<>>
    /\ log = <<>>
    /\ docs = <<>>
    /\ redirect_map_file = <<>>
    /\ config = <<>>
    /\ link = <<>>
    /\ stdout = <<>>
    /\ records = <<>>
    /\ hashable_keys = <<>>

\* The tree may be mutated while no snapshot is held, and up to MaxMutations
\* times between the before and the after snapshot.
MayMutate == before = <<>> \/ (after = <<>> /\ Len(log) < MaxMutations)

Logged(entry) ==
    log' = IF before = <<>> THEN <<>> ELSE Append(log, entry)

Entry(op, n, p, old) == [op |-> op, node |-> n, parent |-> p, old |-> old]

\* ResourceNode(name, attributes)
ResourceNode(nm, args) ==
    /\ Len(name) < MaxNodes
    /\ MayMutate
    /\ name' = Append(name, nm)
    /\ attributes' = Append(attributes,
           SetDefault(IF args = <<>> THEN <<>> ELSE args[1], METADATA_KEY, None))
    /\ children' = Append(children, <<>>)
    /\ Logged(Entry("new", Len(name) + 1, 0, ""))
    /\ UNCHANGED <<uuids, before, after, rules>>
    /\ UNCHANGED docsVars
    /\ UNCHANGED keyVars

\* parent.add_child(child). The caller keeps the structure a tree: the child
\* is a node that has no parent, is not the root and is not above the parent.
add_child(parent, child_node) ==
    /\ MayMutate
    /\ child_node # root
    /\ ~HasParent(child_node)
    /\ parent \notin Subtree(child_node)
    /\ children' = [children EXCEPT ![parent] = Append(@, child_node)]
    /\ Logged(Entry("add_child", child_node, parent, ""))
    /\ UNCHANGED <<name, attributes, uuids, before, after, rules>>
    /\ UNCHANGED docsVars
    /\ UNCHANGED keyVars

\* parent.children.pop(i)
pop_child(parent, i) ==
    /\ MayMutate
    /\ i \in DOMAIN children[parent]
    /\ children' = [children EXCEPT ![parent] =
           SubSeq(@, 1, i - 1) \o SubSeq(@, i + 1, Len(@))]
    /\ Logged(Entry("pop", children[parent][i], parent, ""))
    /\ UNCHANGED <<name, attributes, uuids, before, after, rules>>
    /\ UNCHANGED docsVars
    /\ UNCHANGED keyVars

\* node.name = nm
rename(node, nm) ==
    /\ MayMutate
    /\ nm # name[node]
    /\ name' = [name EXCEPT ![node] = nm]
    /\ Logged(Entry("rename", node, 0, name[node]))
    /\ UNCHANGED <<attributes, children, uuids, before, after, rules>>
    /\ UNCHANGED docsVars
    /\ UNCHANGED keyVars

\* assign_keys(root)
AssignKeys ==
    /\ root \in Nodes
    /\ MayMutate
    /\ LET st == assign_keys([attrs |-> attributes, uuids |-> uuids], root)
       IN /\ attributes' = st.attrs
          /\ uuids' = st.uuids
    /\ Logged(Entry("assign_keys", root, 0, ""))
    /\ UNCHANGED <<name, children, before, after, rules>>
    /\ UNCHANGED docsVars
    /\ UNCHANGED keyVars

\* before_state = create_state_snapshot(root, [])
TakeBefore ==
    /\ root \in Nodes
    /\ before' = <<create_state_snapshot(root, <<>>)>>
    /\ after' = <<>>
    /\ rules' = <<>>
    /\ log' = <<>>
    /\ UNCHANGED <<name, attributes, children, uuids>>
    /\ UNCHANGED docsVars
    /\ UNCHANGED keyVars

\* after_state = create_state_snapshot(root, [])
TakeAfter ==
    /\ before # <<>>
    /\ after' = <<create_state_snapshot(root, <<>>)>>
    /\ rules' = <<>>
    /\ UNCHANGED <<name, attributes, children, uuids, before, log>>
    /\ UNCHANGED docsVars
    /\ UNCHANGED keyVars

\* Mutant: the differ takes each entry out of before_state as it handles it.
GenerateRules_consumes_before ==
    /\ before # <<>>
    /\ after # <<>>
    /\ rules' = <<generate_forwarding_rules(before[1], after[1])>>
    /\ before' = <<EmptyDict>>
    /\ UNCHANGED <<name, attributes, children, uuids, after, log>>
    /\ UNCHANGED docsVars
    /\ UNCHANGED keyVars

\* rules = generate_forwarding_rules(before_state, after_state)
GenerateRules ==
    /\ before # <<>>
    /\ after # <<>>
    /\ rules' = <<generate_forwarding_rules(before[1], after[1])>>
    /\ UNCHANGED <<name, attributes, children, uuids, before, after, log>>
    /\ UNCHANGED docsVars
    /\ UNCHANGED keyVars

\* The caller drops its snapshots and rules.
Discard ==
    /\ before # <<>>
    /\ before' = <<>>
    /\ after' = <<>>
    /\ rules' = <<>>
    /\ log' = <<>>
    /\ UNCHANGED <<name, attributes, children, uuids>>
    /\ UNCHANGED docsVars
    /\ UNCHANGED keyVars

Next ==
    \/ \E nm \in Names, args \in AttributeArgs : ResourceNode(nm, args)
    \/ \E p \in Nodes, c \in Nodes : add_child(p, c)
    \/ \E p \in Nodes, i \in 1..MaxNodes : pop_child(p, i)
    \/ \E n \in Nodes, nm \in Names : rename(n, nm)
    \/ AssignKeys
    \/ TakeBefore
    \/ TakeAfter
    \/ GenerateRules
    \/ Discard

Spec == Init /\ [][Next]_vars

\* ------------------------------------------------- the differ on its own
\* generate_forwarding_rules applied to any two snapshots: mappings from
\* identifiers to records, not only those a tree of MaxNodes nodes gives.
SnapshotIds == {"x", "u1", "u2"}

SnapshotRecords ==
    [path_to_root : {<<>>, <<"x">>}, name : Names]

RECURSIVE Snapshots(_)
Snapshots(n) ==
    IF n = 0 THEN {EmptyDict}
    ELSE LET shorter == Snapshots(n - 1)
         IN shorter \cup
            {Append(d, <<k, r>>) :
                <<d, k, r>> \in {t \in shorter \X SnapshotIds \X SnapshotRecords :
                                   Len(t[1]) = n - 1 /\ ~Has(t[1], t[2])}}

InitDiff ==
    /\ name = <<>>
    /\ attributes = <<>>
    /\ children = <<>>
    /\ uuids = 0
    /\ before \in {<<d>> : d \in Snapshots(MaxEntries)}
    /\ after \in {<<d>> : d \in Snapshots(MaxEntries)}
    /\ rules = <<>>
    /\ log = <<>>
    /\ docs = <<>>
    /\ redirect_map_file = <<>>
    /\ config = <<>>
    /\ link = <<>>
    /\ stdout = <<>>
    /\ records = <<>>
    /\ hashable_keys = <<>>

SpecDiff == InitDiff /\ [][GenerateRules]_vars

\* ------------------------------------------------ a subtree is moved
\* A built tree of MaxTreeNodes nodes, constructed without identifiers as
\* main() constructs its tree, is given its keys, snapshotted, changed by
\* up to MaxMutations mutations and snapshotted again.
MaxTreeNodes == 4

\* The children lists of the trees on the nodes 1..MaxTreeNodes rooted at
\* node 1, each parent's children in the order of their construction.
BuiltTrees ==
    LET parents == {par \in [2..MaxTreeNodes -> 1..MaxTreeNodes] :
                       \A n \in 2..MaxTreeNodes : par[n] < n}
        kids(par, n) == {c \in 2..MaxTreeNodes : par[c] = n}
        nth(S, i) == CHOOSE c \in S : Cardinality({d \in S : d < c}) = i - 1
    IN {[n \in 1..MaxTreeNodes |->
            [i \in 1..Cardinality(kids(par, n)) |-> nth(kids(par, n), i)]] :
          par \in parents}

InitBuilt ==
    /\ name \in [1..MaxTreeNodes -> Names]
    /\ attributes = [n \in 1..MaxTreeNodes |-> (METADATA_KEY :> None)]
    /\ children \in BuiltTrees
    /\ uuids = 0
    /\ before = <<>>
    /\ after = <<>>
    /\ rules = <<>>
    /\ log = <<>>
    /\ docs = <<>>
    /\ redirect_map_file = <<>>
    /\ config = <<>>
    /\ link = <<>>
    /\ stdout = <<>>
    /\ records = <<>>
    /\ hashable_keys = <<>>

NextBuilt ==
    \/ before = <<>> /\ AssignKeys
    \/ before = <<>> /\ TakeBefore
    \/ \E p \in Nodes, i \in 1..MaxTreeNodes : before # <<>> /\ pop_child(p, i)
    \/ \E p \in Nodes, c \in Nodes : before # <<>> /\ add_child(p, c)
    \/ \E n \in Nodes, nm \in Names : before # <<>> /\ rename(n, nm)
    \/ TakeAfter
    \/ GenerateRules

SpecBuilt == InitBuilt /\ [][NextBuilt]_vars

\* ------------------------------------------------ the rule key on its own
\* The key of a rule computed from before_attrs as a dict with its
\* insertion order: a sequence of <<field, value>> items.
PathsToRoot == {<<>>, <<"x">>, <<"a">>, <<"x", "a">>, <<"a", "x">>}

\* The records a caller can construct: the two fields in either order.
RecordItems ==
    UNION {{<< <<"path_to_root", path>>, <<"name", nm>> >>,
            << <<"name", nm>>, <<"path_to_root", path>> >>} :
              <<path, nm>> \in PathsToRoot \X Names}

\* Mutant: the items are not sorted.
hashable_key_of_items_unsorted(items) == items

\* tuple(sorted((k, tuple(v) if isinstance(v, list) else v) for k, v in
\* before_attrs.items())): the items sorted by field name (the fields of a
\* dict are distinct, so no two items are compared by their values); a list
\* and the tuple made of it are the same sequence here.
hashable_key_of_items(items) ==
    LET below(i) == {j \in DOMAIN items : FieldRank(items[j][1]) < FieldRank(items[i][1])}
    IN [n \in DOMAIN items |->
           items[CHOOSE i \in DOMAIN items : Cardinality(below(i)) = n - 1]]

InitKeys ==
    /\ name = <<>>
    /\ attributes = <<>>
    /\ children = <<>>
    /\ uuids = 0
    /\ before = <<>>
    /\ after = <<>>
    /\ rules = <<>>
    /\ log = <<>>
    /\ docs = <<>>
    /\ redirect_map_file = <<>>
    /\ config = <<>>
    /\ link = <<>>
    /\ stdout = <<>>
    /\ records \in RecordItems \X RecordItems
    /\ hashable_keys = <<>>

\* The key is computed for each of the two records.
HashableKey ==
    /\ hashable_keys = <<>>
    /\ hashable_keys' = [i \in DOMAIN records |-> hashable_key_of_items(records[i])]
    /\ UNCHANGED records
    /\ UNCHANGED treeVars
    /\ UNCHANGED docsVars

SpecKeys == InitKeys /\ [][HashableKey]_vars

\* ------------------------------------------- the refactoring of main()
\* main's refactoring between its two snapshots: the i-th child of p is
\* popped, renamed to nm and added under q.
\*     install_node = guides_node.children.pop(0)
\*     install_node.name = "installation"
\*     science_node.add_child(install_node)
move_and_rename(p, i, nm, q) ==
    /\ before # <<>>
    /\ after = <<>>
    /\ log = <<>>
    /\ i \in DOMAIN children[p]
    /\ LET install_node == children[p][i]
           popped == [children EXCEPT ![p] =
                         SubSeq(@, 1, i - 1) \o SubSeq(@, i + 1, Len(@))]
       IN /\ nm # name[install_node]
          /\ q \notin Subtree(install_node)
          /\ children' = [popped EXCEPT ![q] = Append(@, install_node)]
          /\ name' = [name EXCEPT ![install_node] = nm]
          /\ log' = <<Entry("pop", install_node, p, ""),
                      Entry("rename", install_node, 0, name[install_node]),
                      Entry("add_child", install_node, q, "")>>
    /\ UNCHANGED <<attributes, uuids, before, after, rules>>
    /\ UNCHANGED docsVars
    /\ UNCHANGED keyVars

\* main(): the tree is built and its keys assigned, the before snapshot is
\* taken, the tree is refactored, the after snapshot is taken and the rules
\* are generated.
NextRefactor ==
    \/ \E nm \in Names, args \in AttributeArgs : before = <<>> /\ ResourceNode(nm, args)
    \/ \E p \in Nodes, c \in Nodes : before = <<>> /\ add_child(p, c)
    \/ before = <<>> /\ AssignKeys
    \/ TakeBefore
    \/ \E p \in Nodes, i \in 1..MaxNodes, nm \in Names, q \in Nodes :
           move_and_rename(p, i, nm, q)
    \/ TakeAfter
    \/ GenerateRules
    \/ Discard

SpecRefactor == Init /\ [][NextRefactor]_vars

\* ------------------------------------------------------------- linking.py
\* Text is a sequence of tokens (characters and words); a file's content is
\* the sequence of its lines, the text split at "\n": the last line has no
\* newline after it, and a content that ends with a newline has an empty
\* last line.
MaxFiles == 2   \* markdown files in DOCS_DIR at a time

FRONTMATTER_ID_KEY == <<"id">>

DELIMITER == <<"---">>

\* The paths of markdown files relative to DOCS_DIR: a.md, a/b.md, a-b.md.
MdPaths ==
    {<<"a", ".md">>, <<"a", "/", "b", ".md">>, <<"a", "-", "b", ".md">>}

\* What an author writes into a new markdown file: no frontmatter; a
\* frontmatter with an id the author chose; a frontmatter of key-value
\* lines without an id; one with a list item and a blank line before the
\* body; one whose id is empty.
Contents ==
    {<< <<"text">> >>,
     <<DELIMITER, <<"id", ":", " ", "x">>, DELIMITER, <<"text">> >>,
     <<DELIMITER, <<"title", ":", " ", "T">>, DELIMITER, <<"text">> >>,
     <<DELIMITER, <<"tags", ":">>, <<" ", "-", " ", "t">>, DELIMITER, <<>>, <<"text">> >>,
     <<DELIMITER, <<"id", ":">>, DELIMITER, <<"text">> >>}

\* str.lstrip, str.rstrip, str.strip
RECURSIVE lstrip(_)
lstrip(s) == IF s # <<>> /\ s[1] = " " THEN lstrip(Tail(s)) ELSE s

RECURSIVE rstrip(_)
rstrip(s) ==
    IF s # <<>> /\ s[Len(s)] = " " THEN rstrip(SubSeq(s, 1, Len(s) - 1)) ELSE s

strip(s) == rstrip(lstrip(s))

\* str.replace(old, new), token by token
replace(s, old, new) == [i \in DOMAIN s |-> IF s[i] = old THEN new ELSE s[i]]

\* A line that \s* matches whole: empty or of whitespace only.
IsSpace(line) == \A i \in DOMAIN line : line[i] = " "

\* A line that ---\s* matches whole.
IsDelimiter(line) == line # <<>> /\ line[1] = "---" /\ IsSpace(Tail(line))

Min(S) == CHOOSE i \in S : \A j \in S : i <= j

\* re.match(r'^---\s*\n(.*?\n)---\s*\n', content, re.DOTALL): <<>> when
\* there is no match, else <<[first, last, end_pos]>>: group 1 is the lines
\* first..last and the match covers end_pos lines. The opening \s* takes
\* the blank lines after the first line (giving the last of them back when
\* nothing else can be the group); the group is the shortest that a
\* delimiter line with a newline after it follows; the closing \s* takes
\* the blank lines after that delimiter, as long as a line follows.
frontmatter_match(content) ==
    IF content = <<>> \/ ~IsDelimiter(content[1]) THEN <<>>
    ELSE LET n == Len(content)
             blanks == Cardinality({i \in 2..n : \A j \in 2..i : IsSpace(content[j])})
             closers == {j \in (3 + blanks)..(n - 1) : IsDelimiter(content[j])}
             ends(j) == Min({k \in (j + 1)..n : ~IsSpace(content[k]) \/ k = n}) - 1
         IN IF closers # {}
            THEN <<[first |-> 2 + blanks, last |-> Min(closers) - 1,
                    end_pos |-> ends(Min(closers))]>>
            ELSE IF blanks >= 1 /\ 2 + blanks < n /\ IsDelimiter(content[2 + blanks])
                 THEN <<[first |-> 1 + blanks, last |-> 1 + blanks,
                         end_pos |-> ends(2 + blanks)]>>
                 ELSE <<>>

\* The loop of _get_frontmatter over the lines of the block: a line with a
\* colon is split at its first colon into a key and a value, both stripped.
RECURSIVE frontmatter_lines(_, _, _)
frontmatter_lines(data, lines, i) ==
    IF i > Len(lines) THEN data
    ELSE IF \E c \in DOMAIN lines[i] : lines[i][c] = ":"
         THEN LET line == lines[i]
                  colon == Min({c \in DOMAIN line : line[c] = ":"})
                  key == SubSeq(line, 1, colon - 1)
                  value == SubSeq(line, colon + 1, Len(line))
              IN frontmatter_lines(Put(data, strip(key), strip(value)), lines, i + 1)
         ELSE frontmatter_lines(data, lines, i + 1)

\* _get_frontmatter(content): the data and the number of lines the
\* frontmatter section covers (0 without a frontmatter block).
get_frontmatter(content) ==
    LET match == frontmatter_match(content)
    IN IF match = <<>> THEN [data |-> EmptyDict, end_pos |-> 0]
       ELSE [data |-> frontmatter_lines(EmptyDict,
                          SubSeq(content, match[1].first, match[1].last), 1),
             end_pos |-> match[1].end_pos]

\* _format_frontmatter_str(data): the lines 'key: value', each with its
\* newline; one empty line for an empty dict.
format_frontmatter_str(data) ==
    IF data = <<>> THEN << <<>> >>
    ELSE [i \in DOMAIN data |-> data[i][1] \o <<":", " ">> \o data[i][2]]

\* dict.get(k): <<>> for None, <<v>> for the value v.
DictGet(d, k) == IF Has(d, k) THEN <<Get(d, k)>> ELSE <<>>

\* The truth value of what dict.get returned: None and "" are falsy.
Truthy(got) == got # <<>> /\ got[1] # <<>>

\* str(relative_path.with_suffix('')).replace(os.path.sep, '-')
path_id(relative_path) ==
    replace(SubSeq(relative_path, 1, Len(relative_path) - 1), "/", "-")

\* Mutant: every file is given the id generated from its path and rewritten,
\* whether or not it has one.
prepare_file_always_assigns(st, md_file) ==
    LET content == st.docs[md_file]
        got == get_frontmatter(content)
        page_id == path_id(md_file)
        frontmatter == Put(got.data, FRONTMATTER_ID_KEY, page_id)
        body == SubSeq(content, got.end_pos + 1, Len(content))
        new_content == <<DELIMITER>> \o format_frontmatter_str(frontmatter)
                           \o <<DELIMITER>> \o body
    IN [docs |-> [st.docs EXCEPT ![md_file] = new_content],
        redirect_map |-> Put(st.redirect_map, page_id, md_file)]

\* The body of prepare_docs's loop for md_file; st = [docs, redirect_map].
prepare_file(st, md_file) ==
    LET content == st.docs[md_file]
        got == get_frontmatter(content)
        found == DictGet(got.data, FRONTMATTER_ID_KEY)
    IN IF ~Truthy(found)
       THEN LET page_id == path_id(md_file)
                frontmatter == Put(got.data, FRONTMATTER_ID_KEY, page_id)
                body == SubSeq(content, got.end_pos + 1, Len(content))
                new_content == <<DELIMITER>> \o format_frontmatter_str(frontmatter)
                                   \o <<DELIMITER>> \o body
            IN [docs |-> [st.docs EXCEPT ![md_file] = new_content],
                redirect_map |-> Put(st.redirect_map, page_id, md_file)]
       ELSE [docs |-> st.docs,
             redirect_map |-> Put(st.redirect_map, found[1], md_file)]

\* for md_file in docs_dir.rglob('*.md'), over the files in the order found
RECURSIVE prepare_loop(_, _, _)
prepare_loop(st, found, i) ==
    IF i > Len(found) THEN st
    ELSE prepare_loop(prepare_file(st, found[i]), found, i + 1)

\* json.dumps(redirect_map, indent=2): the members of the object, in the
\* order of the dict.
json_dumps(d) == [i \in DOMAIN d |-> [key |-> d[i][1], value |-> d[i][2]]]

\* json.loads(text): the dict of the members, a later member of the same
\* key replacing the value of an earlier one.
RECURSIVE json_loads_from(_, _, _)
json_loads_from(d, text, i) ==
    IF i > Len(text) THEN d
    ELSE json_loads_from(Put(d, text[i].key, text[i].value), text, i + 1)

json_loads(text) == json_loads_from(EmptyDict, text, 1)

\* The orders in which a set of files can be found or listed.
Orderings(S) ==
    {f \in [1..Cardinality(S) -> S] : \A i, j \in DOMAIN f : i # j => f[i] # f[j]}

\* A page of the build: its file's src_path and its url.
Page(src_path) ==
    [src_path |-> src_path,
     url |-> SubSeq(src_path, 1, Len(src_path) - 1) \o <<"/">>]

\* on_config's loop over config['pages']: maps = [after_paths_map,
\* id_to_page_map].
RECURSIVE pages_loop(_, _, _)
pages_loop(maps, pages, i) ==
    IF i > Len(pages) THEN maps
    ELSE LET page == pages[i]
             content == docs[page.src_path]
             page_id == DictGet(get_frontmatter(content).data, FRONTMATTER_ID_KEY)
         IN IF Truthy(page_id)
            THEN pages_loop(
                     [after_paths_map |-> Put(maps.after_paths_map, page_id[1], page.src_path),
                      id_to_page_map |-> Put(maps.id_to_page_map, page_id[1], page)],
                     pages, i + 1)
            ELSE pages_loop(maps, pages, i + 1)

RECURSIVE redirects_loop(_, _, _, _)

\* on_config's loop over old_paths_map.items()
redirects_loop(redirect_rules, old_paths_map, after_paths_map, i) ==
    IF i > Len(old_paths_map) THEN redirect_rules
    ELSE LET page_id == old_paths_map[i][1]
             old_path == old_paths_map[i][2]
             new_path == DictGet(after_paths_map, page_id)
         IN IF Truthy(new_path) /\ new_path[1] # old_path
            THEN redirects_loop(Put(redirect_rules, old_path, new_path[1]),
                                old_paths_map, after_paths_map, i + 1)
            ELSE redirects_loop(redirect_rules, old_paths_map, after_paths_map, i + 1)

\* on_config(config) for a config = [pages, redirects, macros]: redirects
\* is <<>> without the redirects plugin, else <<redirect_maps>>; macros is
\* <<>> without the macros plugin, else <<python_macros>>, and
\* python_macros is <<>> or <<m>> when it holds internal_link, the closure
\* over id_to_page_map m. Without REDIRECT_MAP_FILE the config is returned
\* as it came.
on_config(cfg) ==
    IF redirect_map_file = <<>> THEN cfg
    ELSE LET old_paths_map == json_loads(redirect_map_file[1])
             maps == pages_loop([after_paths_map |-> EmptyDict,
                                 id_to_page_map |-> EmptyDict], cfg.pages, 1)
         IN [pages |-> cfg.pages,
             redirects |->
                 IF cfg.redirects = <<>> THEN <<>>
                 ELSE <<redirects_loop(cfg.redirects[1], old_paths_map,
                                       maps.after_paths_map, 1)>>,
             macros |->
                 IF cfg.macros = <<>> THEN <<>>
                 ELSE << <<maps.id_to_page_map>> >>]

\* The ids a template passes to the macro: those a file can carry, one that
\* no file carries and the empty string.
LinkIds == {<<"a">>, <<"a", "-", "b">>, <<"x">>, <<"y">>, <<>>}

\* internal_link(page_id), the closure over id_to_page_map: what the call
\* returns, or the message of the ValueError it raises.
internal_link(id_to_page_map, page_id) ==
    LET target_page == DictGet(id_to_page_map, page_id)
    IN IF target_page = <<>>
       THEN [raised |-> TRUE,
             value |-> <<"internal_link could not find page with ID: '">>
                           \o page_id \o <<"'">>]
       ELSE [raised |-> FALSE, value |-> target_page[1].url]

\* Mutant: the dry run injects the id into a file that has none, as
\* prepare_docs does.
preview_file_injects(st, md_file) ==
    LET content == st.docs[md_file]
        got == get_frontmatter(content)
        page_id == DictGet(got.data, FRONTMATTER_ID_KEY)
        generated_id == path_id(md_file)
        body == SubSeq(content, got.end_pos + 1, Len(content))
        new_content == <<DELIMITER>>
                           \o format_frontmatter_str(
                                  Put(got.data, FRONTMATTER_ID_KEY, generated_id))
                           \o <<DELIMITER>> \o body
    IN IF Truthy(page_id)
       THEN [st EXCEPT !.files_with_ids = Append(@, <<md_file, page_id[1]>>)]
       ELSE [st EXCEPT !.docs = [@ EXCEPT ![md_file] = new_content],
                       !.files_needing_ids = Append(@, <<md_file, generated_id>>)]

\* The body of preview_docs's loop for md_file; st = [docs,
\* files_needing_ids, files_with_ids]: the file is read and put on one of
\* the two lists.
preview_file(st, md_file) ==
    LET content == st.docs[md_file]
        page_id == DictGet(get_frontmatter(content).data, FRONTMATTER_ID_KEY)
    IN IF Truthy(page_id)
       THEN [st EXCEPT !.files_with_ids = Append(@, <<md_file, page_id[1]>>)]
       ELSE [st EXCEPT !.files_needing_ids = Append(@, <<md_file, path_id(md_file)>>)]

\* for md_file in md_files
RECURSIVE preview_loop(_, _, _)
preview_loop(st, md_files, i) ==
    IF i > Len(md_files) THEN st
    ELSE preview_loop(preview_file(st, md_files[i]), md_files, i + 1)

\* The lines preview_docs prints for its two lists.
preview_report(st, md_files) ==
    << <<"Found", ToString(Len(md_files)), "markdown files">> >>
        \o [i \in DOMAIN st.files_needing_ids |->
               <<"+", st.files_needing_ids[i][1], st.files_needing_ids[i][2]>>]
        \o [i \in DOMAIN st.files_with_ids |->
               <<"*", st.files_with_ids[i][1], st.files_with_ids[i][2]>>]
        \o << <<"Would create/update redirect map">> >>

\* An author writes a new markdown file.
write_text(p, content) ==
    /\ config = <<>>
    /\ p \notin DOMAIN docs
    /\ Cardinality(DOMAIN docs) < MaxFiles
    /\ docs' = (p :> content) @@ docs
    /\ UNCHANGED <<redirect_map_file, config, link, stdout>>
    /\ UNCHANGED treeVars
    /\ UNCHANGED keyVars

\* shutil.move(p, q): the file keeps its content.
move(p, q) ==
    /\ config = <<>>
    /\ p \in DOMAIN docs
    /\ q \notin DOMAIN docs
    /\ docs' = [f \in (DOMAIN docs \ {p}) \cup {q} |->
                   IF f = q THEN docs[p] ELSE docs[f]]
    /\ UNCHANGED <<redirect_map_file, config, link, stdout>>
    /\ UNCHANGED treeVars
    /\ UNCHANGED keyVars

\* p.unlink()
unlink(p) ==
    /\ config = <<>>
    /\ p \in DOMAIN docs
    /\ docs' = [f \in DOMAIN docs \ {p} |-> docs[f]]
    /\ UNCHANGED <<redirect_map_file, config, link, stdout>>
    /\ UNCHANGED treeVars
    /\ UNCHANGED keyVars

\* prepare_docs(), rglob finding the files in the order found.
prepare_docs(found) ==
    /\ config = <<>>
    /\ LET st == prepare_loop([docs |-> docs, redirect_map |-> EmptyDict], found, 1)
       IN /\ docs' = st.docs
          /\ redirect_map_file' = <<json_dumps(st.redirect_map)>>
    /\ UNCHANGED <<config, link, stdout>>
    /\ UNCHANGED treeVars
    /\ UNCHANGED keyVars

PrepareDocs == \E found \in Orderings(DOMAIN docs) : prepare_docs(found)

\* The directories a dry run can be pointed at: DOCS_DIR and a path at
\* which there is no directory.
DocsDirPaths == {"docs", "nowhere"}

\* main() with --prepare --dry-run --docs-dir docs_dir_path: the header is
\* printed and preview_docs(docs_dir_path) runs, rglob finding the files in
\* the order md_files.
preview_docs(docs_dir_path, md_files) ==
    /\ config = <<>>
    /\ LET header == << <<"DRY RUN: Preview of changes that would be made">> >>
           st == preview_loop([docs |-> docs, files_needing_ids |-> <<>>,
                               files_with_ids |-> <<>>], md_files, 1)
       IN IF docs_dir_path # "docs"
          THEN /\ stdout' = <<header \o << <<"ERROR: Directory does not exist">> >> >>
               /\ docs' = docs
          ELSE IF md_files = <<>>
               THEN /\ stdout' = <<header \o << <<"No markdown files found">> >> >>
                    /\ docs' = docs
               ELSE /\ stdout' = <<header \o preview_report(st, md_files)>>
                    /\ docs' = st.docs
    /\ UNCHANGED <<redirect_map_file, config, link>>
    /\ UNCHANGED treeVars
    /\ UNCHANGED keyVars

PreviewDocs ==
    \E docs_dir_path \in DocsDirPaths, md_files \in Orderings(DOMAIN docs) :
        preview_docs(docs_dir_path, md_files)

\* A build starts and MkDocs calls the hook with its config: the pages of
\* the markdown files, the redirects plugin (with no rule yet) and the
\* macros plugin (with no macro yet) configured or not.
OnConfig ==
    /\ config = <<>>
    /\ \E listed \in Orderings(DOMAIN docs), redirects, macros \in BOOLEAN :
           config' = <<on_config(
               [pages |-> [i \in DOMAIN listed |-> Page(listed[i])],
                redirects |-> IF redirects THEN <<EmptyDict>> ELSE <<>>,
                macros |-> IF macros THEN << <<>> >> ELSE <<>>])>>
    /\ UNCHANGED <<docs, redirect_map_file, link, stdout>>
    /\ UNCHANGED treeVars
    /\ UNCHANGED keyVars

\* The build ends.
EndBuild ==
    /\ config # <<>>
    /\ config' = <<>>
    /\ link' = <<>>
    /\ UNCHANGED <<docs, redirect_map_file, stdout>>
    /\ UNCHANGED treeVars
    /\ UNCHANGED keyVars

\* A template of the build calls {{ internal_link(page_id) }}.
InternalLink(page_id) ==
    /\ config # <<>>
    /\ config[1].macros # <<>>
    /\ config[1].macros[1] # <<>>
    /\ link' = <<[page_id |-> page_id,
                  result |-> internal_link(config[1].macros[1][1], page_id)]>>
    /\ UNCHANGED <<docs, redirect_map_file, config, stdout>>
    /\ UNCHANGED treeVars
    /\ UNCHANGED keyVars

NextDocs ==
    \/ \E p \in MdPaths, content \in Contents : write_text(p, content)
    \/ \E p, q \in MdPaths : move(p, q)
    \/ \E p \in MdPaths : unlink(p)
    \/ PrepareDocs
    \/ OnConfig
    \/ \E page_id \in LinkIds : InternalLink(page_id)
    \/ EndBuild

SpecDocs == Init /\ [][NextDocs]_vars

\* The preparation on its own: files are written, and prepare_docs is run
\* for real or as a dry run.
NextDryRun ==
    \/ \E p \in MdPaths, content \in Contents : write_text(p, content)
    \/ PrepareDocs
    \/ PreviewDocs

SpecDryRun == Init /\ [][NextDryRun]_vars

\* ------------------------------------------------------------- vocabulary
\* The nodes of the tree: the root and everything below it.
TreeNodes == IF root \in Nodes THEN Subtree(root) ELSE {}

\* Every node of the tree has a non-empty stable_id.
HasId(n) == stable_id(n) # None /\ stable_id(n) # ""

FullyIdentified == \A n \in TreeNodes : HasId(n)

\* No two nodes of the tree that have an identifier have the same one.
NoSharedId ==
    \A m, n \in TreeNodes :
        (m # n /\ HasId(m) /\ HasId(n)) => stable_id(m) # stable_id(n)

\* The set of stable_ids over the nodes has as many elements as the tree.
AllDistinct ==
    Cardinality({stable_id(n) : n \in TreeNodes}) = Cardinality(TreeNodes)

LastLogged(op) == log # <<>> /\ log[Len(log)].op = op

\* ------------------------------------------------------------------ claims

\* C1 (as stated): after assign_keys(root), whatever identifiers the nodes
\* carried before, every node of the tree has a non-empty stable_id and no
\* two nodes share one.
C1_UniqueWhateverBefore ==
    [][AssignKeys => (FullyIdentified /\ AllDistinct)']_vars

\* C1 (amended): if before the call no two nodes of the tree carry the same
\* non-empty identifier, then after assign_keys(root) every node of the tree
\* has a non-empty stable_id and no two nodes share one; in every case every
\* node has a non-empty stable_id after the call.
C1_UniqueAfterAssign ==
    [][AssignKeys =>
          /\ FullyIdentified'
          /\ NoSharedId => AllDistinct']_vars

\* A tree of three nodes just after assign_keys(root): one node kept the
\* identifier its caller gave it, the other two got generated ones.
C1_Witness ==
    /\ LastLogged("assign_keys")
    /\ Cardinality(TreeNodes) = 3
    /\ uuids = 2
    /\ \E n \in TreeNodes : stable_id(n) = "x"
    /\ AllDistinct

\* C2: a non-empty stable_id never changes: no step of the program changes
\* the stable_id of a node that has one.
C2_StableIdPermanent ==
    [][\A n \in Nodes : HasId(n) => stable_id(n)' = stable_id(n)]_vars

\* A node with a generated identifier that has since been detached and
\* attached elsewhere, after which a second assign_keys ran, with the
\* snapshots taken and the rules generated.
C2_Witness ==
    /\ rules # <<>>
    /\ Len(log) = 2
    /\ log[1].op = "add_child"
    /\ log[2].op = "assign_keys"
    /\ stable_id(log[1].node) = uuid4(1)
    /\ uuids = 2

\* C3: assign_keys is idempotent: it leaves every node identified, and on a
\* tree in which every node already has an identifier it changes nothing
\* (no stable_id, name, attribute or children list, and no identifier is
\* generated), so a second run changes nothing.
C3_Idempotent ==
    [][AssignKeys =>
          /\ FullyIdentified'
          /\ FullyIdentified => UNCHANGED <<name, attributes, children, uuids>>]_vars

\* assign_keys(root) called twice in a row on a tree of three nodes, the
\* first call having generated identifiers.
C3_Witness ==
    /\ Len(log) = 2
    /\ log[1].op = "assign_keys"
    /\ log[2].op = "assign_keys"
    /\ Cardinality(TreeNodes) = 3
    /\ uuids >= 2


\* The identifiers of the ancestors of a node of the tree, from the root
\* down to its parent.
RECURSIVE AncestorIds(_)
AncestorIds(n) ==
    IF n = root THEN <<>>
    ELSE Append(AncestorIds(ParentOf(n)), stable_id(ParentOf(n)))

\* The number of edges from the root to a node of the tree.
RECURSIVE Depth(_)
Depth(n) == IF n = root THEN 0 ELSE 1 + Depth(ParentOf(n))

\* The tree is as it was when before_state was taken.
BeforeIsCurrent == before # <<>> /\ log = <<>>

\* The canonical encoding of a snapshot record.
Encoding(r) == << <<"name", r.name>>, <<"path_to_root", r.path_to_root>> >>

\* C4 (as stated): the snapshot of a tree in which every node has an
\* identifier has as many entries as the tree has nodes.
C4_CompleteWhenIdentified ==
    (BeforeIsCurrent /\ FullyIdentified)
        => Len(before[1]) = Cardinality(TreeNodes)

\* C4 (amended): the snapshot of a tree in which every node has an
\* identifier and no two nodes share one has as many entries as the tree
\* has nodes.
C4_CompleteWhenDistinct ==
    (BeforeIsCurrent /\ FullyIdentified /\ AllDistinct)
        => Len(before[1]) = Cardinality(TreeNodes)

\* The snapshot of a chain of three identified nodes.
C4_Witness ==
    /\ BeforeIsCurrent
    /\ FullyIdentified
    /\ AllDistinct
    /\ Cardinality(TreeNodes) = 3
    /\ Len(before[1]) = 3
    /\ \E n \in TreeNodes : Depth(n) = 2

\* The record the snapshot should hold for node n of the tree.
RecordOf(n) == [path_to_root |-> AncestorIds(n), name |-> name[n]]

PathsCorrect ==
    \A n \in TreeNodes :
        /\ Has(before[1], stable_id(n))
        /\ Get(before[1], stable_id(n)) = RecordOf(n)
        /\ Len(Get(before[1], stable_id(n)).path_to_root) = Depth(n)

\* C5 (as stated): in the snapshot of a tree in which every node has an
\* identifier, the record of every node holds the identifiers of its
\* ancestors from the root to its parent, as many as its depth, and its name.
C5_PathsWhenIdentified ==
    (BeforeIsCurrent /\ FullyIdentified) => PathsCorrect

\* C5 (amended): the same for a tree in which, besides, no two nodes share
\* an identifier.
C5_PathsWhenDistinct ==
    (BeforeIsCurrent /\ FullyIdentified /\ AllDistinct) => PathsCorrect

\* The snapshot of a chain of three identified nodes: the deepest node's
\* record holds the root's and the middle node's identifiers.
C5_Witness ==
    /\ BeforeIsCurrent
    /\ FullyIdentified
    /\ AllDistinct
    /\ \E n \in TreeNodes :
          /\ Depth(n) = 2
          /\ Get(before[1], stable_id(n)).path_to_root =
                 <<stable_id(root), stable_id(ParentOf(n))>>

\* C6: the rules generated from two snapshots of a tree that was not
\* mutated between them are the empty mapping.
C6_NoChangeNoRules ==
    (rules # <<>> /\ log = <<>>) => rules[1] = EmptyDict

\* Rules generated from two snapshots of three entries each, of an
\* unmutated tree.
C6_Witness ==
    /\ rules # <<>>
    /\ log = <<>>
    /\ Len(before[1]) = 3
    /\ Len(after[1]) = 3

\* Between the snapshots leaf d was popped from parent p and added under
\* another node q of the tree, and nothing else was done.
Moved(d, p, q) ==
    /\ log = <<Entry("pop", d, p, ""), Entry("add_child", d, q, "")>>
    /\ p # q
    /\ children[d] = <<>>
    /\ p \in TreeNodes
    /\ q \in TreeNodes

\* There is exactly one rule; it leads to node d and its key encodes record r.
OneRuleFor(d, r) ==
    /\ Len(rules[1]) = 1
    /\ rules[1][1][2] = [new_location_key |-> stable_id(d)]
    /\ rules[1][1][1] = Encoding(r)

\* The record of leaf d before it was moved away from parent p.
RecordUnder(d, p) ==
    [path_to_root |-> Append(AncestorIds(p), stable_id(p)), name |-> name[d]]

\* C7 (as stated): in a tree in which every node has an identifier, moving
\* a leaf to a different parent gives exactly one rule, which leads to the
\* leaf's stable_id and whose key encodes the leaf's original record.
C7_MoveWhenIdentified ==
    \A d, p, q \in Nodes :
        (rules # <<>> /\ Moved(d, p, q) /\ FullyIdentified)
            => OneRuleFor(d, RecordUnder(d, p))

\* C7 (amended): the same for a tree in which, besides, no two nodes share
\* an identifier.
C7_MoveWhenDistinct ==
    \A d, p, q \in Nodes :
        (rules # <<>> /\ Moved(d, p, q) /\ FullyIdentified /\ AllDistinct)
            => OneRuleFor(d, RecordUnder(d, p))

\* Rules generated after a leaf of a tree of three identified nodes was
\* moved from one parent to another.
C7_Witness ==
    \E d, p, q \in Nodes :
        /\ rules # <<>>
        /\ Moved(d, p, q)
        /\ FullyIdentified
        /\ AllDistinct
        /\ Len(rules[1]) = 1

\* Between the snapshots leaf d of the tree was renamed, from name old, and
\* nothing else was done.
Renamed(d, old) ==
    /\ log = <<Entry("rename", d, 0, old)>>
    /\ children[d] = <<>>
    /\ d \in TreeNodes

\* C8 (as stated): in a tree in which every node has an identifier,
\* renaming a leaf gives exactly one rule, which leads to the leaf's
\* stable_id and whose key holds the leaf's old name.
C8_RenameWhenIdentified ==
    \A d \in Nodes : \A old \in Names :
        (rules # <<>> /\ Renamed(d, old) /\ FullyIdentified)
            => OneRuleFor(d, [path_to_root |-> AncestorIds(d), name |-> old])

\* Node d has a stable_id that another node of the tree carries too.
SharesId(d) ==
    HasId(d) /\ \E n \in TreeNodes \ {d} : stable_id(n) = stable_id(d)

\* C8 (amended): the same when, besides, no other node of the tree carries
\* the leaf's stable_id.
C8_RenameWhenOwnId ==
    \A d \in Nodes : \A old \in Names :
        (rules # <<>> /\ Renamed(d, old) /\ FullyIdentified /\ ~SharesId(d))
            => OneRuleFor(d, [path_to_root |-> AncestorIds(d), name |-> old])

\* Rules generated after a leaf at depth 2 of a tree of identified nodes
\* was renamed.
C8_Witness ==
    \E d \in Nodes : \E old \in Names :
        /\ rules # <<>>
        /\ Renamed(d, old)
        /\ FullyIdentified
        /\ ~SharesId(d)
        /\ Depth(d) = 2
        /\ Len(rules[1]) = 1

\* Between the snapshots leaf d was popped from parent p, a node of the
\* tree, and nothing else was done.
Deleted(d, p) ==
    /\ log = <<Entry("pop", d, p, "")>>
    /\ children[d] = <<>>
    /\ p \in TreeNodes

\* C9 (as stated): removing a leaf from the tree gives no rule.
C9_DeletionNoRules ==
    \A d, p \in Nodes :
        (rules # <<>> /\ Deleted(d, p)) => rules[1] = EmptyDict

\* C9 (amended): removing a leaf from the tree gives no rule when no node
\* left in the tree carries the leaf's stable_id (or the leaf has none).
C9_DeletionNoRulesOwnId ==
    \A d, p \in Nodes :
        (rules # <<>> /\ Deleted(d, p) /\ ~SharesId(d)) => rules[1] = EmptyDict

\* Rules generated after an identified leaf was removed from a tree of
\* three identified nodes: its entry is in before_state only.
C9_Witness ==
    \E d, p \in Nodes :
        /\ rules # <<>>
        /\ Deleted(d, p)
        /\ ~SharesId(d)
        /\ Len(before[1]) = 3
        /\ Len(after[1]) = 2
        /\ Has(before[1], stable_id(d))

\* C10: every rule leads to an identifier that is a key of both snapshots
\* and whose records in the two differ, and the rule's key is the encoding
\* of its record in before_state; so no rule leads to an identifier that
\* only one of the snapshots has.
C10_RulesOnlyForChanged ==
    rules # <<>> =>
        \A i \in DOMAIN rules[1] :
            LET k == rules[1][i][2].new_location_key
            IN /\ Has(before[1], k)
               /\ Has(after[1], k)
               /\ Get(before[1], k) # Get(after[1], k)
               /\ rules[1][i][1] = Encoding(Get(before[1], k))

\* Rules generated from a before_state with a deleted and a changed
\* identifier and an after_state with the changed and a new one.
C10_Witness ==
    /\ rules # <<>>
    /\ Len(rules[1]) = 1
    /\ Keys(before[1]) \ Keys(after[1]) # {}
    /\ Keys(after[1]) \ Keys(before[1]) # {}

\* The identifiers both snapshots hold, with records that differ.
ChangedIds ==
    {k \in Keys(before[1]) \cap Keys(after[1]) :
        \E i \in DOMAIN before[1], j \in DOMAIN after[1] :
            /\ before[1][i][1] = k
            /\ after[1][j][1] = k
            /\ before[1][i][2] # after[1][j][2]}

\* The identifiers the rules lead to.
RuleTargets == {rules[1][i][2].new_location_key : i \in DOMAIN rules[1]}

\* C11: the rules are as many as the identifiers that both snapshots hold
\* with differing records, and every such identifier is the
\* new_location_key of a rule.
C11_OneRulePerChanged ==
    rules # <<>> =>
        /\ Len(rules[1]) = Cardinality(ChangedIds)
        /\ ChangedIds \subseteq RuleTargets

\* The same entries in any order of storage.
Reorderings(d) ==
    {[i \in DOMAIN d |-> d[f[i]]] :
        f \in {g \in [DOMAIN d -> DOMAIN d] :
                 \A i, j \in DOMAIN d : i # j => g[i] # g[j]}}

\* Two dicts equal as mappings: the same keys with the same values.
SameMapping(d, e) == {d[i] : i \in DOMAIN d} = {e[i] : i \in DOMAIN e}

\* C12: the rules do not depend on the order in which before_state stores
\* its entries: from every reordering of before_state and the same
\* after_state the differ returns the same mapping.
C12_OrderIndependent ==
    rules # <<>> =>
        \A e \in Reorderings(before[1]) :
            SameMapping(generate_forwarding_rules(e, after[1]), rules[1])

\* Every node of the tree carries an identifier that assign_keys generated,
\* as in main(), which builds its tree of nodes without identifiers.
KeysAssigned ==
    \A n \in TreeNodes : \E i \in 1..uuids : stable_id(n) = "u" \o ToString(i)

\* Between the snapshots leaf d, then named old, was popped from parent p,
\* renamed and added under another node q of the tree.
MovedAndRenamed(d, p, q, old) ==
    /\ log = <<Entry("pop", d, p, ""), Entry("rename", d, 0, old),
               Entry("add_child", d, q, "")>>
    /\ p # q
    /\ children[d] = <<>>
    /\ p \in TreeNodes
    /\ q \in TreeNodes

\* C13: when, in a tree identified by assign_keys, one leaf is moved to a
\* different parent and renamed between the snapshots, there is exactly one
\* rule; it leads to the leaf's stable_id and its key encodes the leaf's
\* record before the change; and that stable_id is the key of the leaf's
\* entry in before_state (the old record) and in after_state (the new one).
C13_MoveAndRenameOneRule ==
    \A d, p, q \in Nodes : \A old \in Names :
        (rules # <<>> /\ MovedAndRenamed(d, p, q, old) /\ KeysAssigned) =>
            LET was == [path_to_root |-> Append(AncestorIds(p), stable_id(p)),
                        name |-> old]
            IN /\ OneRuleFor(d, was)
               /\ <<stable_id(d), was>> \in Range(before[1])
               /\ <<stable_id(d), RecordOf(d)>> \in Range(after[1])

\* Rules generated after a leaf of a tree of three nodes, identified by
\* assign_keys, was moved under its former sibling and renamed.
C13_Witness ==
    \E d, p, q \in Nodes : \E old \in Names :
        /\ rules # <<>>
        /\ MovedAndRenamed(d, p, q, old)
        /\ KeysAssigned
        /\ uuids = 3
        /\ Depth(d) = 2
        /\ Len(rules[1]) = 1

\* Node n of the tree and all the nodes above it have an identifier.
RECURSIVE IdentifiedFromRoot(_)
IdentifiedFromRoot(n) ==
    HasId(n) /\ (n = root \/ IdentifiedFromRoot(ParentOf(n)))

\* C14: a node without an identifier is not an error: the snapshot of a
\* tree whose root has none is the empty mapping, and in general a node
\* without an identifier and every node beneath it, identified or not,
\* contribute no entry, while every identified node outside such subtrees
\* has its entry: the entries are exactly those of the nodes identified all
\* the way from the root.
C14_UnidentifiedSubtreeOmitted ==
    BeforeIsCurrent =>
        LET reached == {n \in TreeNodes : IdentifiedFromRoot(n)}
        IN /\ ~HasId(root) => before[1] = <<>>
           /\ {before[1][i][1] : i \in DOMAIN before[1]}
                  = {stable_id(n) : n \in reached}
           /\ \A i \in DOMAIN before[1] :
                  \E n \in reached : before[1][i] = <<stable_id(n), RecordOf(n)>>

\* The snapshot of a chain of three nodes whose middle node has no
\* identifier while the root and the leaf have one: only the root's entry.
C14_Witness ==
    /\ BeforeIsCurrent
    /\ HasId(root)
    /\ Len(before[1]) = 1
    /\ \E c, g \in TreeNodes :
          /\ c \in Range(children[root])
          /\ g \in Range(children[c])
          /\ ~HasId(c)
          /\ HasId(g)
          /\ stable_id(g) # stable_id(root)

\* ------------------------------------------------ claims about the docs
\* The index of the line that closes the frontmatter block of a content that
\* opens with a line ---: the next line --- that has a line after it; 0
\* when the content has no such block.
BlockEnd(content) ==
    LET closing == {j \in 3..(Len(content) - 1) : content[j] = <<"---">>}
    IN IF content # <<>> /\ content[1] = <<"---">> /\ closing # {}
       THEN CHOOSE j \in closing : \A k \in closing : j <= k
       ELSE 0

\* The lines of the frontmatter block, between its two --- lines.
BlockLines(content) == {content[i] : i \in 2..(BlockEnd(content) - 1)}

\* The id a content carries in its frontmatter block: the text after
\* "id:", without the blanks around it; <<>> when the block has no id line
\* or an empty one, or there is no block.
FileId(content) ==
    LET ids == {strip(SubSeq(l, 3, Len(l))) :
                   l \in {m \in BlockLines(content) :
                             Len(m) >= 2 /\ m[1] = "id" /\ m[2] = ":"}}
    IN IF ids \ {<<>>} = {} THEN <<>> ELSE CHOOSE v \in ids \ {<<>>} : TRUE

\* The id made of a file's relative path: the suffix dropped and every
\* separator turned into "-".
DerivedId(p) == [i \in 1..(Len(p) - 1) |-> IF p[i] = "/" THEN "-" ELSE p[i]]

\* The redirect map file, <<>> or <<text>>, holds the member id -> p.
Saved(file, id, p) ==
    /\ file # <<>>
    /\ \E i \in DOMAIN file[1] : file[1][i] = [key |-> id, value |-> p]

\* C15: after prepare_docs every markdown file has an id in its
\* frontmatter: a file that had a non-empty id keeps it, a file without one
\* gets the id made of its relative path; and the written redirect map
\* holds, for every markdown file, the entry id -> relative path (and is
\* empty when there is no markdown file).
C15_PrepareAssignsAndMaps ==
    [][PrepareDocs =>
          /\ DOMAIN docs' = DOMAIN docs
          /\ \A p \in DOMAIN docs :
                /\ FileId(docs'[p]) # <<>>
                /\ FileId(docs[p]) # <<>> => FileId(docs'[p]) = FileId(docs[p])
                /\ FileId(docs[p]) = <<>> => FileId(docs'[p]) = DerivedId(p)
                /\ Saved(redirect_map_file', FileId(docs'[p]), p)
          /\ DOMAIN docs = {} => redirect_map_file' = << <<>> >>]_vars

\* No two markdown files carry the same id.
IdsDistinct ==
    \A p, q \in DOMAIN docs : p # q => FileId(docs[p]) # FileId(docs[q])

\* C16: after every prepare_docs run, whatever files were written and moved
\* before it, no two markdown files carry the same id and the written
\* redirect map has exactly one entry per markdown file.
C16_UniqueIdsAfterPrepare ==
    [][PrepareDocs =>
          (/\ IdsDistinct
           /\ Len(redirect_map_file[1]) = Cardinality(DOMAIN docs))']_vars

\* C17: the id of a file is permanent: a prepare_docs run leaves the id of
\* every file that has a non-empty one as it is, a move takes the id along
\* to the file's new path, and a prepare_docs run over files that all have
\* an id rewrites none of them.
C17_IdPermanent ==
    [][/\ \A p \in DOMAIN docs :
             FileId(docs[p]) # <<>> =>
                 /\ PrepareDocs => (/\ p \in DOMAIN docs'
                                    /\ FileId(docs'[p]) = FileId(docs[p]))
                 /\ \A q \in MdPaths :
                        move(p, q) => FileId(docs'[q]) = FileId(docs[p])
       /\ (PrepareDocs /\ \A p \in DOMAIN docs : FileId(docs[p]) # <<>>)
              => docs' = docs]_vars

\* A file that was given the id of its path, then moved to a path that
\* makes another id, after a second prepare_docs run: the file still
\* carries the first id and the map leads from it to the new path.
C17_Witness ==
    \E p, q \in MdPaths :
        /\ q \in DOMAIN docs
        /\ p \notin DOMAIN docs
        /\ FileId(docs[q]) = DerivedId(p)
        /\ DerivedId(q) # DerivedId(p)
        /\ Saved(redirect_map_file, DerivedId(p), q)

\* The text of a line occurs in some line of a content.
Present(line, content) ==
    \E i \in DOMAIN content : \E k \in 1..(Len(content[i]) + 1) :
        /\ k + Len(line) - 1 <= Len(content[i])
        /\ SubSeq(content[i], k, k + Len(line) - 1) = line

\* The body of a content: the lines after its frontmatter block, without
\* the blank lines that open it.
RECURSIVE WithoutBlankLines(_)
WithoutBlankLines(lines) ==
    IF Len(lines) > 1 /\ lines[1] = <<>> THEN WithoutBlankLines(Tail(lines))
    ELSE lines

Body(content) ==
    WithoutBlankLines(SubSeq(content, BlockEnd(content) + 1, Len(content)))

\* The frontmatter block of a content has no id line.
BlockWithoutId(content) ==
    /\ BlockEnd(content) > 0
    /\ \A l \in BlockLines(content) : l = <<>> \/ l[1] # "id"

\* C18: prepare_docs preserves the frontmatter it finds: after it has
\* injected an id into a file whose frontmatter block had no id, every line
\* of that block still occurs in the file and the file ends with the body
\* it had; and a file that had an id is not rewritten.
C18_FrontmatterPreserved ==
    [][PrepareDocs =>
          \A p \in DOMAIN docs :
              /\ BlockWithoutId(docs[p]) =>
                     /\ \A l \in BlockLines(docs[p]) : Present(l, docs'[p])
                     /\ Len(docs'[p]) >= Len(Body(docs[p]))
                     /\ SubSeq(docs'[p], Len(docs'[p]) - Len(Body(docs[p])) + 1,
                               Len(docs'[p])) = Body(docs[p])
              /\ FileId(docs[p]) # <<>> => docs'[p] = docs[p]]_vars

\* A build is under way with the redirects plugin configured and the
\* redirect map file in place.
BuildWithRedirects ==
    /\ config # <<>>
    /\ config[1].redirects # <<>>
    /\ redirect_map_file # <<>>

\* The redirects old_path -> new_path of redirect_maps.
Redirects == {config[1].redirects[1][i] : i \in DOMAIN config[1].redirects[1]}

\* The members id -> path of the saved redirect map.
SavedMembers == {redirect_map_file[1][i] : i \in DOMAIN redirect_map_file[1]}

\* The positions in config['pages'] of the pages that carry the id.
Carrying(id) ==
    {i \in DOMAIN config[1].pages : FileId(docs[config[1].pages[i].src_path]) = id}

\* C19: with the redirects plugin configured, redirect_maps holds
\* old_path -> new_path exactly for each id of the saved map and each page
\* of the build that carries the id at a src_path, new_path, other than
\* the saved path, old_path; and it holds no redirect from the saved path
\* of an id that a page of the build still carries at that path.
C19_RedirectsForMovedIds ==
    BuildWithRedirects =>
        /\ Redirects =
               {<<m.value, config[1].pages[i].src_path>> :
                   <<m, i>> \in {t \in SavedMembers \X DOMAIN config[1].pages :
                       /\ t[2] \in Carrying(t[1].key)
                       /\ config[1].pages[t[2]].src_path # t[1].value}}
        /\ \A m \in SavedMembers :
               (\E i \in Carrying(m.key) : config[1].pages[i].src_path = m.value)
                   => \A r \in Redirects : r[1] # m.value

\* C20: a build without the redirect map file: on_config returns a config
\* (no error), with no redirect in redirect_maps, and with internal_link in
\* the python_macros of the macros plugin when that plugin is configured.
C20_MissingMapStillSetsMacro ==
    (config # <<>> /\ redirect_map_file = <<>>) =>
        /\ config[1].redirects # <<>> => config[1].redirects[1] = <<>>
        /\ config[1].macros # <<>> => config[1].macros[1] # <<>>

\* The positions in config['pages'] of the pages whose frontmatter carries
\* the id the macro was called with; the empty string is no id.
LinkCarriers ==
    IF link[1].page_id = <<>> THEN {} ELSE Carrying(link[1].page_id)

\* The text occurs in the message.
Mentions(text, message) ==
    \E k \in 1..(Len(message) + 1) :
        /\ k + Len(text) - 1 <= Len(message)
        /\ SubSeq(message, k, k + Len(text) - 1) = text

\* C21: the macro on_config installed resolves an id against the
\* frontmatter of the pages of the build: for every page that carries the
\* id, internal_link returns that page's url; for an id that no page of the
\* build carries, whether or not the saved map holds it, it raises a
\* ValueError whose message names the id.
C21_LinkResolvesCurrentPages ==
    link # <<>> =>
        /\ \A i \in LinkCarriers :
               link[1].result = [raised |-> FALSE, value |-> config[1].pages[i].url]
        /\ LinkCarriers = {} =>
               /\ link[1].result.raised
               /\ Mentions(link[1].page_id, link[1].result.value)

\* C22: a dry run changes nothing: whatever directory it is pointed at
\* (DOCS_DIR with or without markdown files, or no directory at all), no
\* markdown file is modified, so no id is injected, and the redirect map
\* file is neither created nor updated.
C22_DryRunChangesNothing ==
    [][PreviewDocs => UNCHANGED <<docs, redirect_map_file>>]_vars

\* A dry run has reported a file as one that would be given an id; the
\* file still has none and no redirect map file exists.
C22_Witness ==
    /\ stdout # <<>>
    /\ redirect_map_file = <<>>
    /\ \E i \in DOMAIN stdout[1] :
          /\ stdout[1][i][1] = "+"
          /\ stdout[1][i][2] \in DOMAIN docs
          /\ FileId(docs[stdout[1][i][2]]) = <<>>

\* The nodes of the subtree of n in document order: n, then the subtrees of
\* its children from left to right.
RECURSIVE DocumentOrder(_)
RECURSIVE DocumentOrderOf(_, _)
DocumentOrder(n) == <<n>> \o DocumentOrderOf(children[n], 1)

DocumentOrderOf(kids, i) ==
    IF i > Len(kids) THEN <<>>
    ELSE DocumentOrder(kids[i]) \o DocumentOrderOf(kids, i + 1)

\* The node carrying identifier k that the traversal visits last: a node
\* is visited when it and all the nodes above it have an identifier.
LastVisited(k) ==
    LET order == DocumentOrder(root)
        at == {i \in DOMAIN order :
                  stable_id(order[i]) = k /\ IdentifiedFromRoot(order[i])}
    IN order[CHOOSE i \in at : \A j \in at : j <= i]

\* C23: when nodes of the tree carry the same identifier the snapshot
\* still has one entry per identifier, and the entry is the record of the
\* node visited last in document order (a node before its children, the
\* children from left to right): a descendant's record replaces its
\* ancestor's, a later sibling subtree's an earlier one's.
C23_LastVisitedWins ==
    BeforeIsCurrent =>
        /\ \A i, j \in DOMAIN before[1] :
               i # j => before[1][i][1] # before[1][j][1]
        /\ \A i \in DOMAIN before[1] :
               before[1][i][2] = RecordOf(LastVisited(before[1][i][1]))

\* The snapshot of a root with two children, all three carrying the same
\* identifier: the one entry is the record of the second child.
C23_Witness ==
    /\ BeforeIsCurrent
    /\ Len(children[root]) = 2
    /\ \A n \in TreeNodes : stable_id(n) = "x"
    /\ name[children[root][1]] # name[children[root][2]]
    /\ before[1] = << <<"x", RecordOf(children[root][2])>> >>

\* The record a dict of items stands for: the mapping from its fields to
\* their values, whatever the order of construction.
RecordOfItems(items) ==
    [path_to_root |-> items[CHOOSE i \in DOMAIN items : items[i][1] = "path_to_root"][2],
     name |-> items[CHOOSE i \in DOMAIN items : items[i][1] = "name"][2]]

\* C24: the rule key is a canonical encoding of the old record: two
\* records with the same path_to_root and the same name get the same key
\* in whatever order their fields were constructed, two records that
\* differ in path_to_root or in name get different keys; the key is the
\* one the differ computes for the record.
C24_CanonicalEncoding ==
    hashable_keys # <<>> =>
        LET r1 == RecordOfItems(records[1])
            r2 == RecordOfItems(records[2])
        IN /\ (r1.path_to_root = r2.path_to_root /\ r1.name = r2.name)
                  <=> hashable_keys[1] = hashable_keys[2]
           /\ hashable_keys[1] = hashable_key(r1)
           /\ hashable_keys[2] = hashable_key(r2)

\* Keys computed for two records of the same path and name, one
\* constructed path first and the other name first.
C24_Witness ==
    /\ hashable_keys # <<>>
    /\ records[1][1][1] = "path_to_root"
    /\ records[2][1][1] = "name"
    /\ records[1][1][2] = <<"x", "a">>
    /\ records[2][2][2] = <<"x", "a">>
    /\ records[1][2][2] = records[2][1][2]
    /\ hashable_keys[1] = hashable_keys[2]

\* C25: create_state_snapshot has no side effects: the call leaves every
\* node's name, attributes and children list as they were; the list passed
\* for the root, which the root's record holds, is still empty after the
\* call; and a call on a tree not mutated since the last call returns the
\* mapping that call returned.
C25_SnapshotNoSideEffects ==
    [][(TakeBefore \/ TakeAfter) =>
          /\ UNCHANGED <<name, attributes, children>>
          /\ (TakeBefore /\ HasId(root) /\ ~SharesId(root)) =>
                 Get(before'[1], stable_id(root)).path_to_root = <<>>
          /\ (TakeAfter /\ HasId(root) /\ ~SharesId(root)) =>
                 Get(after'[1], stable_id(root)).path_to_root = <<>>
          /\ (TakeAfter /\ log = <<>>) => after'[1] = before[1]
          /\ (TakeBefore /\ before # <<>> /\ log = <<>>) => before'[1] = before[1]]_vars

\* A second snapshot taken of an unmutated tree of three identified
\* nodes: it equals the first and the root's record has the empty path.
C25_Witness ==
    /\ after # <<>>
    /\ rules = <<>>
    /\ log = <<>>
    /\ Cardinality(TreeNodes) = 3
    /\ FullyIdentified
    /\ AllDistinct
    /\ Len(after[1]) = 3
    /\ after[1] = before[1]
    /\ Get(after[1], stable_id(root)).path_to_root = <<>>

\* C26: a snapshot does not change once returned: as long as the caller
\* holds before_state, no mutation of the tree (a node constructed, added,
\* popped or renamed, assign_keys), no later create_state_snapshot call
\* and no generate_forwarding_rules call changes it; and
\* generate_forwarding_rules leaves after_state unchanged too.
C26_SnapshotImmutable ==
    [][/\ (before # <<>> /\ ~TakeBefore /\ ~Discard) => before' = before
       /\ GenerateRules => after' = after]_vars

\* The rules have been generated after a rename and an assign_keys that
\* followed the before snapshot: the snapshot still holds the renamed
\* node's old name and lacks the node identified since.
C26_Witness ==
    /\ rules # <<>>
    /\ Len(log) = 2
    /\ log[1].op = "rename"
    /\ log[2].op = "assign_keys"
    /\ HasId(log[1].node)
    /\ Has(before[1], stable_id(log[1].node))
    /\ Get(before[1], stable_id(log[1].node)).name = log[1].old
    /\ Len(before[1]) < Len(after[1])

\* C27: the identity state of a node can always be read and is never the
\* empty string: whatever attribute mapping a node was constructed from,
\* its attributes hold the reserved key, and its stable_id reads None or a
\* non-empty identifier at every point of its life.
C27_NeverEmptyString ==
    \A n \in Nodes :
        /\ METADATA_KEY \in DOMAIN attributes[n]
        /\ stable_id(n) # ""

\* Between the snapshots node m, which has descendants, was popped from
\* parent p and added under another node q of the tree, and nothing else
\* was done.
MovedSubtree(m, p, q) ==
    /\ log = <<Entry("pop", m, p, ""), Entry("add_child", m, q, "")>>
    /\ p # q
    /\ children[m] # <<>>
    /\ p \in TreeNodes
    /\ q \in TreeNodes

\* Before m was moved from under p to under q, no two siblings of the tree
\* had the same name.
SiblingNamesDistinctBefore(m, p, q) ==
    \A n \in TreeNodes :
        LET kids == IF n = q THEN Range(children[n]) \ {m}
                    ELSE IF n = p THEN Range(children[n]) \cup {m}
                    ELSE Range(children[n])
        IN \A c, d \in kids : c # d => name[c] # name[d]

\* C28: in a tree in which every node has an identifier of its own and no
\* two siblings have the same name, moving a node that has descendants to
\* a different parent gives one rule for the node and one for each of its
\* descendants, and none for any node outside its subtree: the rules are
\* as many as the nodes of the subtree and lead to exactly their
\* identifiers.
C28_MoveSubtree ==
    \A m, p, q \in Nodes :
        (/\ rules # <<>>
         /\ MovedSubtree(m, p, q)
         /\ FullyIdentified
         /\ AllDistinct
         /\ SiblingNamesDistinctBefore(m, p, q))
            => /\ RuleTargets = {stable_id(n) : n \in Subtree(m)}
               /\ Len(rules[1]) = Cardinality(Subtree(m))

\* Rules generated after a node with a child was moved from under the
\* root to under its former sibling: two rules.
C28_Witness ==
    \E m, p, q \in Nodes :
        /\ rules # <<>>
        /\ MovedSubtree(m, p, q)
        /\ FullyIdentified
        /\ AllDistinct
        /\ SiblingNamesDistinctBefore(m, p, q)
        /\ p = root
        /\ Cardinality(Subtree(m)) = 2
        /\ Len(rules[1]) = 2

\* Between the snapshots node r of the tree, which has descendants, was
\* renamed, from name old, and nothing else was done.
RenamedInternal(r, old) ==
    /\ log = <<Entry("rename", r, 0, old)>>
    /\ children[r] # <<>>
    /\ r \in TreeNodes

\* There is exactly one rule and it leads to node r: none leads to a
\* descendant of r.
OnlyRuleLeadsTo(r) ==
    /\ Len(rules[1]) = 1
    /\ rules[1][1][2] = [new_location_key |-> stable_id(r)]

\* C29 (as stated): in a tree in which every node has an identifier,
\* renaming a node that has descendants gives exactly one rule, which
\* leads to that node's stable_id, and no rule for any of its descendants.
C29_RenameInternalWhenIdentified ==
    \A r \in Nodes : \A old \in Names :
        (rules # <<>> /\ RenamedInternal(r, old) /\ FullyIdentified)
            => OnlyRuleLeadsTo(r)

\* C29 (amended): the same when, besides, no other node of the tree
\* carries the renamed node's stable_id; the rule's key then holds the
\* node's path and its old name.
C29_RenameInternalWhenOwnId ==
    \A r \in Nodes : \A old \in Names :
        (rules # <<>> /\ RenamedInternal(r, old) /\ FullyIdentified /\ ~SharesId(r))
            => /\ OnlyRuleLeadsTo(r)
               /\ rules[1][1][1] = Encoding([path_to_root |-> AncestorIds(r), name |-> old])

\* Rules generated after the middle node of a chain of three identified
\* nodes was renamed: one rule, though the record of the node beneath it
\* holds its identifier in its path.
C29_Witness ==
    \E r \in Nodes : \E old \in Names :
        /\ rules # <<>>
        /\ RenamedInternal(r, old)
        /\ FullyIdentified
        /\ AllDistinct
        /\ Depth(r) = 1
        /\ Len(rules[1]) = 1
        /\ \E c \in Range(children[r]) :
               Get(after[1], stable_id(c)).path_to_root = <<stable_id(root), stable_id(r)>>

\* The paths a chain of redirects leads to from path p in at most n steps.
RECURSIVE RedirectedTo(_, _)
RedirectedTo(p, n) ==
    IF n = 0 THEN {}
    ELSE LET next == {r[2] : r \in {t \in Redirects : t[1] = p}}
         IN next \cup UNION {RedirectedTo(q, n - 1) : q \in next}

\* C30: the redirects on_config adds make no loop: no chain of them leads
\* from a path back to that path, whatever the saved map and the pages of
\* the build (two pages may have exchanged their paths since prepare_docs
\* ran); and none of them leads away from the src_path of a page of the
\* build.
C30_NoRedirectLoop ==
    BuildWithRedirects =>
        /\ \A r \in Redirects : r[1] \notin RedirectedTo(r[1], Cardinality(Redirects))
        /\ \A r \in Redirects : \A i \in DOMAIN config[1].pages :
               r[1] # config[1].pages[i].src_path

====
